---- MODULE Spec2Model ----
(***************************************************************************)
(* Model of dnatools: text assembly, alphabet encoding, SA-IS suffix array *)
(* construction, Kasai LCP, annotated index, index persistence, binary     *)
(* search over the suffix array, the pattern trie, and the mode dispatch   *)
(* of the command line.                                                    *)
(*                                                                         *)
(* Go strings are sequences of bytes (0..255); Go slices are sequences,    *)
(* read with 0-based indices through At.  A run-time panic (index out of   *)
(* range) is the value Panic, which every caller propagates; no array of   *)
(* the program ever holds the value -2.                                    *)
(***************************************************************************)
EXTENDS Integers, Sequences, FiniteSets, TLC

VARIABLES pc, data, sequences, genome, lineMap, encoded, alphabetSize,
          sa, lcp, entries, file, loaded, query, results,
          trie, inserted, trieResults,
          flags, fsys, out, lmsCall

\* flags: the parsed command line; fsys: the files the run finds; out: the
\* usage and error messages printed; lmsCall: the last call of
\* lmsSubstringEqual and its result
vars == <<pc, data, sequences, genome, lineMap, encoded, alphabetSize,
          sa, lcp, entries, file, loaded, query, results,
          trie, inserted, trieResults,
          flags, fsys, out, lmsCall>>

(* ---------------------------- bounds ----------------------------------- *)
MaxData == 4
MaxDNA == 5
MaxQuery == 3
MaxTrieText == 1
MaxPattern == 2
MaxInserts == 2
MaxEntries == 2
MaxPos == 10
MaxLine == 0
MaxCliData == 2

MaxIdxLines == 2

MaxZip == 2

MaxSearchText == 2
MaxSearchEntries == 3

MaxSortedText == 3

MaxLcpText == 4

\* SA-IS on its own: the largest symbol, the length of the arrays over all
\* symbols, and the number of descents of the alternating arrays
MaxSym == 3
MaxSaisLen == 6
MaxZigzag == 5

MaxLcp == 1

(* ----------------------- bytes of interest ----------------------------- *)
NL == 10
SP == 32
Separator == 36
Minus == 45
Digit0 == 48
RuneError == 65533
\* bufio.MaxScanTokenSize, the size a line of an index file must stay below
MaxScanTokenSize == 65536

\* the characters of the sequence files explored: 'A', 'C', ' ', '\n' and
\* U+00E9 in UTF-8
DataChars == {<<65>>, <<67>>, <<SP>>, <<NL>>, <<195, 169>>}
DNABytes == {65, 67, 71}
QueryBytes == {Separator, 65, 67, 71}
\* the characters of trie texts and patterns: 'A', 'C' and U+00E9 in UTF-8
TrieChars == {<<65>>, <<67>>, <<195, 169>>}

(* ------------------------ generic helpers ------------------------------ *)
At(s, i) == s[i + 1]

InRange(s, i) == i >= 0 /\ i < Len(s)

SetAt(s, i, v) == [s EXCEPT ![i + 1] = v]

Fill(n, v) == [i \in 1..n |-> v]

Slice(s, from, to) == SubSeq(s, from + 1, to)

Max(a, b) == IF a > b THEN a ELSE b

Panic == <<-2>>

StringsUpTo(B, n) == UNION {[1..k -> B] : k \in 0..n}

RECURSIVE Flatten(_)
Flatten(ss) == IF ss = <<>> THEN <<>> ELSE Head(ss) \o Flatten(Tail(ss))

\* the byte strings made of at most n characters of C
TextsUpTo(C, n) == {Flatten(cs) : cs \in StringsUpTo(C, n)}

(* --------------------- UTF-8 (Go range / WriteRune) -------------------- *)
IsCont(b) == b >= 128 /\ b <= 191

ByteOr(s, i) == IF i < Len(s) THEN s[i + 1] ELSE -1

\* the rune and width that `for _, ch := range s` yields at byte index i
DecodeRune(s, i) ==
  LET b0 == s[i + 1]
      b1 == ByteOr(s, i + 1)
      b2 == ByteOr(s, i + 2)
      b3 == ByteOr(s, i + 3)
      lo3 == IF b0 = 224 THEN 160 ELSE 128
      hi3 == IF b0 = 237 THEN 159 ELSE 191
      lo4 == IF b0 = 240 THEN 144 ELSE 128
      hi4 == IF b0 = 244 THEN 143 ELSE 191
  IN  IF b0 < 128 THEN [r |-> b0, w |-> 1]
      ELSE IF b0 >= 194 /\ b0 <= 223 /\ IsCont(b1)
        THEN [r |-> (b0 - 192) * 64 + (b1 - 128), w |-> 2]
      ELSE IF b0 >= 224 /\ b0 <= 239 /\ b1 >= lo3 /\ b1 <= hi3 /\ IsCont(b2)
        THEN [r |-> (b0 - 224) * 4096 + (b1 - 128) * 64 + (b2 - 128), w |-> 3]
      ELSE IF b0 >= 240 /\ b0 <= 244 /\ b1 >= lo4 /\ b1 <= hi4
              /\ IsCont(b2) /\ IsCont(b3)
        THEN [r |-> (b0 - 240) * 262144 + (b1 - 128) * 4096
                     + (b2 - 128) * 64 + (b3 - 128), w |-> 4]
      ELSE [r |-> RuneError, w |-> 1]

\* the bytes strings.Builder.WriteRune appends for rune r
EncodeRune(r) ==
  IF r < 0 \/ r > 1114111 \/ (r >= 55296 /\ r <= 57343) THEN <<239, 191, 189>>
  ELSE IF r < 128 THEN <<r>>
  ELSE IF r < 2048 THEN <<192 + (r \div 64), 128 + (r % 64)>>
  ELSE IF r < 65536
    THEN <<224 + (r \div 4096), 128 + ((r \div 64) % 64), 128 + (r % 64)>>
  ELSE <<240 + (r \div 262144), 128 + ((r \div 4096) % 64),
         128 + ((r \div 64) % 64), 128 + (r % 64)>>

RECURSIVE RunesFrom(_, _)
\* the (byte index, rune, width) triples of a range loop over s, from index i
RunesFrom(s, i) ==
  IF i >= Len(s) THEN <<>>
  ELSE LET d == DecodeRune(s, i)
       IN  <<[at |-> i, r |-> d.r, w |-> d.w]>> \o RunesFrom(s, i + d.w)

Runes(s) == RunesFrom(s, 0)

\* unicode.IsSpace
IsSpace(r) ==
  r \in {9, 10, 11, 12, 13, 32, 133, 160, 5760, 8232, 8233, 8239, 8287, 12288}
  \/ (r >= 8192 /\ r <= 8202)

(* ----------------------- text assembler (runApp) ----------------------- *)
RECURSIVE SplitFrom(_, _, _)
\* strings.Split(s, "\n"): cur is the line being collected from byte i on
SplitFrom(s, i, cur) ==
  IF i >= Len(s) THEN <<cur>>
  ELSE IF s[i + 1] = NL THEN <<cur>> \o SplitFrom(s, i + 1, <<>>)
  ELSE SplitFrom(s, i + 1, Append(cur, s[i + 1]))

Split(s) == SplitFrom(s, 0, <<>>)

RECURSIVE TrimLeft(_)
TrimLeft(rs) ==
  IF rs = <<>> THEN rs
  ELSE IF IsSpace(Head(rs).r) THEN TrimLeft(Tail(rs)) ELSE rs

RECURSIVE TrimRight(_)
TrimRight(rs) ==
  IF rs = <<>> THEN rs
  ELSE IF IsSpace(rs[Len(rs)].r) THEN TrimRight(SubSeq(rs, 1, Len(rs) - 1))
  ELSE rs

\* strings.TrimSpace: the bytes between the first and the last non-space rune
TrimSpace(s) ==
  LET rs == TrimRight(TrimLeft(Runes(s)))
  IN  IF rs = <<>> THEN <<>>
      ELSE Slice(s, rs[1].at, rs[Len(rs)].at + rs[Len(rs)].w)

RECURSIVE RetainLines(_)
\* the loop over lines that keeps the trimmed, non-empty ones
RetainLines(ls) ==
  IF ls = <<>> THEN <<>>
  ELSE LET trimmed == TrimSpace(Head(ls))
       IN  (IF trimmed # <<>> THEN <<trimmed>> ELSE <<>>) \o RetainLines(Tail(ls))

Sequences(d) == RetainLines(Split(d))

RECURSIVE WriteRunes(_)
\* genomeBuilder.WriteRune(ch) for every rune of one sequence
WriteRunes(rs) ==
  IF rs = <<>> THEN <<>> ELSE EncodeRune(Head(rs).r) \o WriteRunes(Tail(rs))

RECURSIVE AssembleGenome(_, _)
\* the bytes written to genomeBuilder for sequences i.. (0-based)
AssembleGenome(seqs, i) ==
  IF i >= Len(seqs) THEN <<>>
  ELSE WriteRunes(Runes(seqs[i + 1]))
       \o (IF i < Len(seqs) - 1 THEN <<Separator>> ELSE <<>>)
       \o AssembleGenome(seqs, i + 1)

RECURSIVE AssembleLineMap(_, _)
\* the values appended to lineMap for sequences i.. (0-based)
AssembleLineMap(seqs, i) ==
  IF i >= Len(seqs) THEN <<>>
  ELSE Fill(Len(Runes(seqs[i + 1])), i)
       \o (IF i < Len(seqs) - 1 THEN <<-1>> ELSE <<>>)
       \o AssembleLineMap(seqs, i + 1)

(* ------------------------- alphabet encoder ---------------------------- *)
RECURSIVE EncodeLoop(_, _)
\* encoded[i] = int(ch) + 1 at the byte index of every rune
EncodeLoop(enc, rs) ==
  IF rs = <<>> THEN enc
  ELSE EncodeLoop(SetAt(enc, Head(rs).at, Head(rs).r + 1), Tail(rs))

RECURSIVE MaxOf(_)
MaxOf(s) == IF s = <<>> THEN 0 ELSE Max(Head(s), MaxOf(Tail(s)))

\* encodeString: encoded array (0 wherever no rune starts) and maxVal + 1
encodeString(s) ==
  LET enc == EncodeLoop(Fill(Len(s) + 1, 0), Runes(s))
  IN  [encoded |-> enc, K |-> MaxOf(enc) + 1]

(* ----------------------------- SA-IS ----------------------------------- *)
RECURSIVE BucketSizesLoop(_, _, _)
BucketSizesLoop(s, bs, i) ==
  IF i >= Len(s) THEN bs
  ELSE IF ~InRange(bs, At(s, i)) THEN Panic
  ELSE BucketSizesLoop(s, SetAt(bs, At(s, i), At(bs, At(s, i)) + 1), i + 1)

computeBucketSizes(s, K) == BucketSizesLoop(s, Fill(K, 0), 0)

RECURSIVE SumOver(_, _)
\* the sum of bs[d] over the bucket indices d in D
SumOver(bs, D) ==
  IF D = {} THEN 0
  ELSE LET d == CHOOSE x \in D : TRUE IN At(bs, d) + SumOver(bs, D \ {d})

\* the running sum of the two prefix-sum loops, before bucket c: only the
\* non-empty buckets contribute to it
SumBefore(bs, nonEmpty, c) == SumOver(bs, {d \in nonEmpty : d < c})

NonEmpty(bs) == {d \in 0..(Len(bs) - 1) : At(bs, d) > 0}

\* heads[i] = sum; sum += v
computeBucketHeads(bs) ==
  LET ne == NonEmpty(bs) IN [i \in 1..Len(bs) |-> SumBefore(bs, ne, i - 1)]

\* sum += v; tails[i] = sum - 1
computeBucketTails(bs) ==
  LET ne == NonEmpty(bs) IN [i \in 1..Len(bs) |-> SumBefore(bs, ne, i) - 1]

RECURSIVE PlaceLMS(_, _, _, _, _)
\* first loop of induceSort: LMS positions to the tails of their buckets
PlaceLMS(s, SA, tails, lms, i) ==
  IF i < 0 THEN SA
  ELSE LET pos == At(lms, i)
       IN  IF ~InRange(s, pos) THEN Panic
           ELSE LET c == At(s, pos)
                IN  IF ~InRange(tails, c) THEN Panic
                    ELSE IF ~InRange(SA, At(tails, c)) THEN Panic
                    ELSE PlaceLMS(s, SetAt(SA, At(tails, c), pos),
                                  SetAt(tails, c, At(tails, c) - 1), lms, i - 1)

RECURSIVE InduceL(_, _, _, _, _)
\* second loop of induceSort: L-type positions, left to right, at bucket heads
InduceL(s, SA, t, heads, i) ==
  IF i >= Len(SA) THEN SA
  ELSE LET pos == At(SA, i)
       IN  IF pos > 0 /\ ~At(t, pos - 1)
           THEN LET c == At(s, pos - 1)
                IN  IF ~InRange(SA, At(heads, c)) THEN Panic
                    ELSE InduceL(s, SetAt(SA, At(heads, c), pos - 1), t,
                                 SetAt(heads, c, At(heads, c) + 1), i + 1)
           ELSE InduceL(s, SA, t, heads, i + 1)

RECURSIVE InduceS(_, _, _, _, _)
\* third loop of induceSort: S-type positions, right to left, at bucket tails
InduceS(s, SA, t, tails, i) ==
  IF i < 0 THEN SA
  ELSE LET pos == At(SA, i)
       IN  IF pos > 0 /\ At(t, pos - 1)
           THEN LET c == At(s, pos - 1)
                IN  IF ~InRange(SA, At(tails, c)) THEN Panic
                    ELSE InduceS(s, SetAt(SA, At(tails, c), pos - 1), t,
                                 SetAt(tails, c, At(tails, c) - 1), i - 1)
           ELSE InduceS(s, SA, t, tails, i - 1)

induceSort(s, SA, t, K, lms) ==
  LET bs == computeBucketSizes(s, K)
  IN  IF bs = Panic THEN Panic
      ELSE LET placed == PlaceLMS(s, SA, computeBucketTails(bs), lms, Len(lms) - 1)
           IN  IF placed = Panic THEN Panic
               ELSE LET induced == InduceL(s, placed, t, computeBucketHeads(bs), 0)
                    IN  IF induced = Panic THEN Panic
                        ELSE InduceS(s, induced, t, computeBucketTails(bs),
                                     Len(induced) - 1)

IsLMS(t, i) == i > 0 /\ At(t, i) /\ ~At(t, i - 1)

RECURSIVE lmsSubstringEqualNoSymbol(_, _, _, _)
\* a comparison that tests the LMS boundaries before the symbols
lmsSubstringEqualNoSymbol(s, t, i, j) ==
  IF IsLMS(t, i) /\ IsLMS(t, j) THEN TRUE
  ELSE IF At(s, i) # At(s, j) THEN FALSE
  ELSE IF IsLMS(t, i) # IsLMS(t, j) THEN FALSE
  ELSE IF i + 1 >= Len(s) \/ j + 1 >= Len(s) THEN FALSE
  ELSE lmsSubstringEqualNoSymbol(s, t, i + 1, j + 1)

RECURSIVE lmsSubstringEqual(_, _, _, _)
lmsSubstringEqual(s, t, i, j) ==
  IF At(s, i) # At(s, j) THEN FALSE
  ELSE IF IsLMS(t, i) /\ IsLMS(t, j) THEN TRUE
  ELSE IF IsLMS(t, i) # IsLMS(t, j) THEN FALSE
  ELSE IF i + 1 >= Len(s) \/ j + 1 >= Len(s) THEN FALSE
  ELSE lmsSubstringEqual(s, t, i + 1, j + 1)

RECURSIVE Classify(_, _, _)
\* the type array t (TRUE = S-type), filled from i down to 0
Classify(s, t, i) ==
  IF i < 0 THEN t
  ELSE Classify(s,
                SetAt(t, i, IF At(s, i) < At(s, i + 1) THEN TRUE
                            ELSE IF At(s, i) > At(s, i + 1) THEN FALSE
                            ELSE At(t, i + 1)),
                i - 1)

\* the type array SAIS computes for s (t[n-1] = true, then right to left)
TypesOf(s) == Classify(s, SetAt(Fill(Len(s), FALSE), Len(s) - 1, TRUE), Len(s) - 2)

\* the positions SAIS collects in lmsPositions
LMSPositionsOf(s) == {i \in 1..(Len(s) - 1) : IsLMS(TypesOf(s), i)}

RECURSIVE NameLoop(_, _, _, _, _, _, _)
\* the naming loop over sortedLMS from index k on
NameLoop(s, t, sortedLMS, k, lmsNames, name, prev) ==
  IF k >= Len(sortedLMS) THEN [lmsNames |-> lmsNames, name |-> name]
  ELSE LET pos == At(sortedLMS, k)
           name2 == IF prev # -1 /\ ~lmsSubstringEqual(s, t, prev, pos)
                    THEN name + 1 ELSE name
       IN  NameLoop(s, t, sortedLMS, k + 1, SetAt(lmsNames, pos, name2), name2, pos)

RECURSIVE InvertNames(_, _, _)
\* reducedSA[name] = i for every i, name of reduced
InvertNames(reduced, reducedSA, i) ==
  IF i >= Len(reduced) THEN reducedSA
  ELSE IF ~InRange(reducedSA, At(reduced, i)) THEN Panic
  ELSE InvertNames(reduced, SetAt(reducedSA, At(reduced, i), i), i + 1)

RECURSIVE SAIS(_, _, _, _, _)
SAIS(s, K, n, SA, lmsNames) ==
  IF n = 0 THEN <<>>
  ELSE IF n = 1 THEN <<0>>
  ELSE
    LET t == Classify(s, SetAt(Fill(n, FALSE), n - 1, TRUE), n - 2)
        lmsPositions == SelectSeq([i \in 1..n |-> i - 1], LAMBDA p : IsLMS(t, p))
        SA1 == induceSort(s, Fill(n, -1), t, K, lmsPositions)
    IN  IF SA1 = Panic THEN Panic
        ELSE
          LET sortedLMS == SelectSeq(SA1, LAMBDA pos : IsLMS(t, pos))
              named == NameLoop(s, t, sortedLMS, 0, Fill(n, -1), 0, -1)
              numNames == named.name + 1
              reduced == [k \in 1..Len(lmsPositions) |->
                            At(named.lmsNames, lmsPositions[k])]
              reducedSA == IF numNames < Len(reduced)
                           THEN SAIS(reduced, numNames, Len(reduced), SA1, named.lmsNames)
                           ELSE InvertNames(reduced, Fill(Len(reduced), 0), 0)
          IN  IF reducedSA = Panic THEN Panic
              ELSE IF \E k \in 1..Len(reducedSA) : ~InRange(lmsPositions, reducedSA[k])
                THEN Panic
              ELSE LET orderedLMS == [k \in 1..Len(reducedSA) |->
                                        At(lmsPositions, reducedSA[k])]
                   IN  induceSort(s, Fill(n, -1), t, K, orderedLMS)

SAISEntryPoint(s, K) == SAIS(s, K, Len(s), Fill(Len(s), 0), Fill(Len(s), 0))

\* the reduced string and the number of names SAIS computes for s before it
\* decides to recurse, or a panic of the first induced sort
Reduction(s, K, n) ==
  LET t == Classify(s, SetAt(Fill(n, FALSE), n - 1, TRUE), n - 2)
      lmsPositions == SelectSeq([i \in 1..n |-> i - 1], LAMBDA p : IsLMS(t, p))
      SA1 == induceSort(s, Fill(n, -1), t, K, lmsPositions)
  IN  IF SA1 = Panic THEN [panic |-> TRUE, reduced |-> <<>>, numNames |-> 0]
      ELSE
        LET sortedLMS == SelectSeq(SA1, LAMBDA pos : IsLMS(t, pos))
            named == NameLoop(s, t, sortedLMS, 0, Fill(n, -1), 0, -1)
        IN  [panic |-> FALSE,
             reduced |-> [k \in 1..Len(lmsPositions) |->
                            At(named.lmsNames, lmsPositions[k])],
             numNames |-> named.name + 1]

RECURSIVE SAISCalls(_, _, _)
\* the recursive calls SAIS(reduced, numNames, len(reduced), ...) made below
\* the call SAIS(s, K, n, ...), outermost first, each with the length of the
\* input it was reduced from
SAISCalls(s, K, n) ==
  IF n < 2 THEN <<>>
  ELSE LET r == Reduction(s, K, n)
       IN  IF r.panic \/ ~(r.numNames < Len(r.reduced)) THEN <<>>
           ELSE <<[from |-> n, s |-> r.reduced, K |-> r.numNames]>>
                  \o SAISCalls(r.reduced, r.numNames, Len(r.reduced))

(* ------------------------------ Kasai ---------------------------------- *)
RECURSIVE RankLoop(_, _, _)
\* rank[pos] = i for every entry of sa (guarded by pos < n only)
RankLoop(sa_, rank, i) ==
  IF i >= Len(sa_) THEN rank
  ELSE LET pos == At(sa_, i)
       IN  IF pos < Len(sa_)
           THEN IF pos < 0 THEN Panic
                ELSE RankLoop(sa_, SetAt(rank, pos, i), i + 1)
           ELSE RankLoop(sa_, rank, i + 1)

RECURSIVE Extend(_, _, _, _)
\* the inner loop: grow h while the bytes at i+h and j+h agree
Extend(s, i, j, h) ==
  IF i + h < Len(s) /\ j + h < Len(s) /\ At(s, i + h) = At(s, j + h)
  THEN Extend(s, i, j, h + 1) ELSE h

RECURSIVE KasaiLoopKeep(_, _, _, _, _, _)
\* a Kasai loop that carries h over without decrementing it
KasaiLoopKeep(s, sa_, rank, lcp_, i, h) ==
  IF i >= Len(sa_) THEN lcp_
  ELSE IF At(rank, i) > 0
    THEN LET j == At(sa_, At(rank, i) - 1)
             h2 == Extend(s, i, j, h)
         IN  KasaiLoopKeep(s, sa_, rank, SetAt(lcp_, At(rank, i), h2), i + 1, h2)
    ELSE KasaiLoopKeep(s, sa_, rank, SetAt(lcp_, At(rank, i), 0), i + 1, h)

RECURSIVE KasaiLoop(_, _, _, _, _, _)
KasaiLoop(s, sa_, rank, lcp_, i, h) ==
  IF i >= Len(sa_) THEN lcp_
  ELSE IF At(rank, i) > 0
    THEN LET j == At(sa_, At(rank, i) - 1)
             h2 == Extend(s, i, j, h)
         IN  KasaiLoop(s, sa_, rank, SetAt(lcp_, At(rank, i), h2), i + 1,
                       IF h2 > 0 THEN h2 - 1 ELSE h2)
    ELSE KasaiLoop(s, sa_, rank, SetAt(lcp_, At(rank, i), 0), i + 1, h)

RECURSIVE KasaiCarried(_, _, _, _, _)
\* the value of h at the start of the iterations i, i+1, ... of the main loop
KasaiCarried(s, sa_, rank, i, h) ==
  IF i >= Len(sa_) THEN <<>>
  ELSE IF At(rank, i) > 0
    THEN LET h2 == Extend(s, i, At(sa_, At(rank, i) - 1), h)
         IN  <<h>> \o KasaiCarried(s, sa_, rank, i + 1, IF h2 > 0 THEN h2 - 1 ELSE h2)
    ELSE <<h>> \o KasaiCarried(s, sa_, rank, i + 1, h)

computeLCP(s, sa_) ==
  LET n == Len(sa_)
      rank == RankLoop(sa_, Fill(n, 0), 0)
  IN  IF rank = Panic THEN Panic
      ELSE KasaiLoop(s, sa_, rank, Fill(n, 0), 0, 0)

(* ----------------------- annotated entries (runApp) -------------------- *)
\* an entry construction that reads the origin at the index i, not at sa[i]
BuildEntriesByIndex(sa_, lcp_, lm) ==
  [i \in 1..Len(sa_) |->
     [Pos |-> sa_[i],
      Line |-> IF i - 1 < Len(lm) THEN At(lm, i - 1) ELSE -1,
      LCP |-> lcp_[i]]]

\* entries[i] = SuffixEntry{Pos: pos, Line: lineNum, LCP: lcp[i]}
BuildEntriesOf(sa_, lcp_, lm) ==
  [i \in 1..Len(sa_) |->
     [Pos |-> sa_[i],
      Line |-> IF sa_[i] < Len(lm) THEN At(lm, sa_[i]) ELSE -1,
      LCP |-> lcp_[i]]]

(* ------------------------ suffix-array search -------------------------- *)
PanicInt == -2

RECURSIVE CompareFrom(_, _, _, _)
CompareFrom(g, pos, q, i) ==
  IF i < Len(q) /\ pos + i < Len(g)
  THEN IF At(g, pos + i) # At(q, i) THEN At(g, pos + i) - At(q, i)
       ELSE CompareFrom(g, pos, q, i + 1)
  ELSE IF i < Len(q) THEN -1 ELSE 0

compareSuffix(g, pos, q) == CompareFrom(g, pos, q, 0)

\* genome[pos+i] with a negative index
comparePanics(g, pos, q) == pos < 0 /\ Len(q) > 0

\* strings.HasPrefix
HasPrefix(s, prefix) ==
  Len(s) >= Len(prefix) /\ SubSeq(s, 1, Len(prefix)) = prefix

RECURSIVE lowerBoundLoopLeq(_, _, _, _, _)
\* a lower-bound loop that also moves right on a suffix that matches q
lowerBoundLoopLeq(g, es, q, lo, hi) ==
  IF lo < hi
  THEN LET mid == (lo + hi) \div 2
       IN  IF comparePanics(g, At(es, mid).Pos, q) THEN PanicInt
           ELSE IF compareSuffix(g, At(es, mid).Pos, q) <= 0
             THEN lowerBoundLoopLeq(g, es, q, mid + 1, hi)
           ELSE lowerBoundLoopLeq(g, es, q, lo, mid)
  ELSE lo

RECURSIVE lowerBoundLoop(_, _, _, _, _)
lowerBoundLoop(g, es, q, lo, hi) ==
  IF lo < hi
  THEN LET mid == (lo + hi) \div 2
       IN  IF comparePanics(g, At(es, mid).Pos, q) THEN PanicInt
           ELSE IF compareSuffix(g, At(es, mid).Pos, q) < 0
             THEN lowerBoundLoop(g, es, q, mid + 1, hi)
           ELSE lowerBoundLoop(g, es, q, lo, mid)
  ELSE lo

lowerBound(g, es, q) ==
  LET lo == lowerBoundLoop(g, es, q, 0, Len(es))
  IN  IF lo = PanicInt THEN PanicInt
      ELSE IF lo < Len(es)
        THEN IF At(es, lo).Pos < 0 \/ At(es, lo).Pos > Len(g) THEN PanicInt
             ELSE IF HasPrefix(Slice(g, At(es, lo).Pos, Len(g)), q) THEN lo
             ELSE -1
      ELSE -1

RECURSIVE upperBoundStrict(_, _, _, _, _)
\* an upper bound that compares with < where the code compares with <=
upperBoundStrict(g, es, q, lo, hi) ==
  IF lo < hi
  THEN LET mid == (lo + hi) \div 2
       IN  IF comparePanics(g, At(es, mid).Pos, q) THEN PanicInt
           ELSE IF compareSuffix(g, At(es, mid).Pos, q) < 0
             THEN upperBoundStrict(g, es, q, mid + 1, hi)
           ELSE upperBoundStrict(g, es, q, lo, mid)
  ELSE lo

RECURSIVE upperBoundReversed(_, _, _, _, _)
\* an upper bound that moves right on the suffixes greater than q, as if the
\* two arguments of the comparison were exchanged
upperBoundReversed(g, es, q, lo, hi) ==
  IF lo < hi
  THEN LET mid == (lo + hi) \div 2
       IN  IF comparePanics(g, At(es, mid).Pos, q) THEN PanicInt
           ELSE IF compareSuffix(g, At(es, mid).Pos, q) >= 0
             THEN upperBoundReversed(g, es, q, mid + 1, hi)
           ELSE upperBoundReversed(g, es, q, lo, mid)
  ELSE lo

RECURSIVE upperBound(_, _, _, _, _)
upperBound(g, es, q, lo, hi) ==
  IF lo < hi
  THEN LET mid == (lo + hi) \div 2
       IN  IF comparePanics(g, At(es, mid).Pos, q) THEN PanicInt
           ELSE IF compareSuffix(g, At(es, mid).Pos, q) <= 0
             THEN upperBound(g, es, q, mid + 1, hi)
           ELSE upperBound(g, es, q, lo, mid)
  ELSE lo

\* a search that takes the absent marker -1 of lowerBound for the index 0
searchSequenceFromStart(g, es, q) ==
  LET lb == lowerBound(g, es, q)
  IN  IF lb = PanicInt THEN [panic |-> TRUE, res |-> <<>>]
      ELSE LET ub == upperBound(g, es, q, 0, Len(es))
               from == IF lb = -1 THEN 0 ELSE lb
           IN  IF ub = PanicInt \/ from > ub THEN [panic |-> TRUE, res |-> <<>>]
               ELSE [panic |-> FALSE, res |-> Slice(es, from, ub)]

\* the result slice entries[lb:ub], or a panic (bad index or lb > ub)
searchSequence(g, es, q) ==
  LET lb == lowerBound(g, es, q)
  IN  IF lb = PanicInt THEN [panic |-> TRUE, res |-> <<>>]
      ELSE IF lb = -1 THEN [panic |-> FALSE, res |-> <<>>]
      ELSE LET ub == upperBound(g, es, q, 0, Len(es))
           IN  IF ub = PanicInt \/ lb > ub THEN [panic |-> TRUE, res |-> <<>>]
               ELSE [panic |-> FALSE, res |-> Slice(es, lb, ub)]

(* --------------------------- index file -------------------------------- *)
RECURSIVE Digits(_)
\* the decimal digits of n >= 0, most significant first
Digits(n) ==
  IF n < 10 THEN <<Digit0 + n>> ELSE Append(Digits(n \div 10), Digit0 + (n % 10))

\* a %d that loses the sign
FormatIntUnsigned(n) == IF n < 0 THEN Digits(0 - n) ELSE Digits(n)

\* fmt verb %d
FormatInt(n) == IF n < 0 THEN <<Minus>> \o Digits(0 - n) ELSE Digits(n)

\* fmt.Sprintf("%d %d %d", entry.Pos, entry.Line, entry.LCP)
FormatEntry(e) ==
  FormatInt(e.Pos) \o <<SP>> \o FormatInt(e.Line) \o <<SP>> \o FormatInt(e.LCP)

RECURSIVE Join(_)
\* strings.Join(lines, "\n")
Join(ls) ==
  IF ls = <<>> THEN <<>>
  ELSE IF Len(ls) = 1 THEN ls[1]
  ELSE ls[1] \o <<NL>> \o Join(Tail(ls))

saveIndex(es) == Join([i \in 1..Len(es) |-> FormatEntry(es[i])])

DropCR(l) == IF l # <<>> /\ l[Len(l)] = 13 THEN SubSeq(l, 1, Len(l) - 1) ELSE l

\* bufio.ScanLines: the lines of the file, a final empty line is no line
ScanLines(content) ==
  LET parts == Split(content)
      kept == IF parts[Len(parts)] = <<>> THEN SubSeq(parts, 1, Len(parts) - 1)
              ELSE parts
  IN  [i \in 1..Len(kept) |-> DropCR(kept[i])]

RECURSIVE FieldsFrom(_, _, _)
\* strings.Fields: maximal runs of non-space runes; cur is the running field
FieldsFrom(l, rs, cur) ==
  IF rs = <<>> THEN (IF cur = <<>> THEN <<>> ELSE <<cur>>)
  ELSE IF IsSpace(Head(rs).r)
    THEN (IF cur = <<>> THEN <<>> ELSE <<cur>>) \o FieldsFrom(l, Tail(rs), <<>>)
  ELSE FieldsFrom(l, Tail(rs),
                  cur \o Slice(l, Head(rs).at, Head(rs).at + Head(rs).w))

Fields(l) == FieldsFrom(l, Runes(l), <<>>)

IsDigit(b) == b >= Digit0 /\ b <= Digit0 + 9

Unsigned(f) == IF f # <<>> /\ f[1] \in {Minus, 43} THEN Tail(f) ELSE f

RECURSIVE StripZeros(_)
StripZeros(ds) ==
  IF Len(ds) > 1 /\ ds[1] = Digit0 THEN StripZeros(Tail(ds)) ELSE ds

\* the decimal digits of 1<<63, the first magnitude an int cannot hold
Int64Limit ==
  <<57, 50, 50, 51, 51, 55, 50, 48, 51, 54, 56, 53, 52, 55, 55, 53, 56, 48, 56>>

RECURSIVE DigitsLess(_, _)
\* a < b for two digit strings of the same length
DigitsLess(a, b) ==
  IF a = <<>> THEN FALSE
  ELSE IF a[1] # b[1] THEN a[1] < b[1]
  ELSE DigitsLess(Tail(a), Tail(b))

\* strconv.ErrRange does not occur: the magnitude is below 1<<63, or equal
\* to it for a negative number
InIntRange(f) ==
  LET ds == StripZeros(Unsigned(f))
  IN  \/ Len(ds) < Len(Int64Limit)
      \/ /\ Len(ds) = Len(Int64Limit)
         /\ (DigitsLess(ds, Int64Limit) \/ (ds = Int64Limit /\ f[1] = Minus))

\* strconv.Atoi succeeds: optional sign, then at least one decimal digit, and
\* a value in the range of int
AtoiOK(f) ==
  /\ Unsigned(f) # <<>>
  /\ \A i \in 1..Len(Unsigned(f)) : IsDigit(Unsigned(f)[i])
  /\ InIntRange(f)

RECURSIVE DigitsValue(_)
DigitsValue(ds) ==
  IF ds = <<>> THEN 0
  ELSE DigitsValue(SubSeq(ds, 1, Len(ds) - 1)) * 10 + (ds[Len(ds)] - Digit0)

Atoi(f) == IF f[1] = Minus THEN 0 - DigitsValue(Unsigned(f)) ELSE DigitsValue(Unsigned(f))

RECURSIVE ParseLines(_)
\* the scanner loop of loadIndex: malformed lines are skipped
ParseLines(ls) ==
  IF ls = <<>> THEN <<>>
  ELSE LET parts == Fields(Head(ls))
       IN  (IF Len(parts) = 3 /\ AtoiOK(parts[1]) /\ AtoiOK(parts[2]) /\ AtoiOK(parts[3])
            THEN <<[Pos |-> Atoi(parts[1]), Line |-> Atoi(parts[2]),
                    LCP |-> Atoi(parts[3])]>>
            ELSE <<>>)
           \o ParseLines(Tail(ls))

\* scanner.Err() is bufio.ErrTooLong: a line does not fit the scanner's buffer
ScanTooLong(content) ==
  \E i \in 1..Len(Split(content)) : Len(Split(content)[i]) >= MaxScanTokenSize

\* the entries loadIndex returns when it returns no error
loadIndex(content) == ParseLines(ScanLines(content))

(* ------------------------------- trie ---------------------------------- *)
EmptyMap == [x \in {} |-> 0]

NewNode == [children |-> EmptyMap, isEnd |-> FALSE, pattern |-> <<>>]

\* NewTrie: the arena holds the root (node 1) only
NewTrie == <<NewNode>>

RECURSIVE InsertFromFresh(_, _, _, _)
\* an Insert that creates a child node even where one exists
InsertFromFresh(tr, current, rs, pattern) ==
  IF rs = <<>>
  THEN [tr EXCEPT ![current].isEnd = TRUE, ![current].pattern = pattern]
  ELSE LET ch == Head(rs).r
           fresh == Len(tr) + 1
           tr2 == Append([tr EXCEPT ![current].children =
                            (ch :> fresh) @@ tr[current].children],
                         NewNode)
       IN  InsertFromFresh(tr2, fresh, Tail(rs), pattern)

RECURSIVE InsertFrom(_, _, _, _)
\* Insert from node current on, for the runes rs still to consume
InsertFrom(tr, current, rs, pattern) ==
  IF rs = <<>>
  THEN [tr EXCEPT ![current].isEnd = TRUE, ![current].pattern = pattern]
  ELSE LET ch == Head(rs).r
       IN  IF ch \in DOMAIN tr[current].children
           THEN InsertFrom(tr, tr[current].children[ch], Tail(rs), pattern)
           ELSE LET fresh == Len(tr) + 1
                    tr2 == Append([tr EXCEPT ![current].children =
                                     (ch :> fresh) @@ tr[current].children],
                                  NewNode)
                IN  InsertFrom(tr2, fresh, Tail(rs), pattern)

Insert(tr, pattern) == InsertFrom(tr, 1, Runes(pattern), pattern)

RECURSIVE InsertAll(_, _)
\* for _, pat := range patterns { trie.Insert(pat) }
InsertAll(tr, ps) ==
  IF ps = <<>> THEN tr ELSE InsertAll(Insert(tr, Head(ps)), Tail(ps))

AppendHit(res, pat, i) ==
  IF pat \in DOMAIN res THEN [res EXCEPT ![pat] = Append(@, i)]
  ELSE (pat :> <<i>>) @@ res

RECURSIVE WalkFrom(_, _, _, _, _, _)
\* the inner loop of searchTrie for start i, at byte j, in node current
WalkFrom(text, tr, res, i, j, current) ==
  IF j >= Len(text) THEN res
  ELSE LET ch == At(text, j)
       IN  IF ch \notin DOMAIN tr[current].children THEN res
           ELSE LET next == tr[current].children[ch]
                IN  WalkFrom(text, tr,
                             IF tr[next].isEnd THEN AppendHit(res, tr[next].pattern, i)
                             ELSE res,
                             i, j + 1, next)

RECURSIVE ScanFrom(_, _, _, _)
ScanFrom(text, tr, res, i) ==
  IF i >= Len(text) THEN res
  ELSE ScanFrom(text, tr, WalkFrom(text, tr, res, i, i, 1), i + 1)

searchTrie(text, tr) == ScanFrom(text, tr, EmptyMap, 0)

(* ------------------------------ state ---------------------------------- *)
Queries == StringsUpTo(QueryBytes, MaxQuery)

Patterns == TextsUpTo(TrieChars, MaxPattern) \ {<<>>}

\* entries at the positions 0, MaxPos - 1 and MaxPos (one and two digits)
EntryValues == [Pos : {0, MaxPos - 1, MaxPos}, Line : -1..MaxLine, LCP : 0..MaxLcp]

\* no mode flag given: -m false, -s "" and -t ""
NoFlags == [m |-> FALSE, s |-> <<>>, t |-> <<>>]

\* the content of a file that cannot be read
NoFile == <<-1>>

\* a readable sequence file and no pattern file
NoFiles == [readable |-> TRUE, patterns |-> NoFile]

\* lmsSubstringEqual has not been called
NoCall == [i |-> -1, j |-> -1, equal |-> FALSE]

\* the command lines explored: -m or not, -s "A" or not, -t "p" or not
CliFlags == [m : BOOLEAN, s : {<<>>, <<65>>}, t : {<<>>, <<112>>}]

\* the pattern files explored: missing, "A", "A\nAC" and the single byte 0xA9
PatternFiles == {NoFile, <<65>>, <<65, NL, 65, 67>>, <<169>>}

\* the index files explored: missing, empty and "0 0 0"
IndexFiles == {NoFile, <<>>, <<Digit0, SP, Digit0, SP, Digit0>>}

UsageMsg == "Please provide -m to build index, -s <sequence> for suffix array search, or -t <file> for trie search (used with -f)."

Blank ==
  /\ sequences = <<>> /\ genome = <<>> /\ lineMap = <<>>
  /\ encoded = <<>> /\ alphabetSize = 0
  /\ sa = <<>> /\ lcp = <<>> /\ entries = <<>>
  /\ file = <<>> /\ loaded = <<>>
  /\ query = <<>> /\ results = <<>>
  /\ trie = NewTrie /\ inserted = <<>> /\ trieResults = EmptyMap
  /\ flags = NoFlags /\ fsys = NoFiles /\ out = <<>> /\ lmsCall = NoCall

\* the tool started on a sequence file with the bytes data
Init ==
  /\ pc = "read"
  /\ data \in TextsUpTo(DataChars, MaxData)
  /\ Blank

\* the tool started on a file holding one DNA sequence
InitDNA ==
  /\ pc = "read"
  /\ data \in StringsUpTo(DNABytes, MaxDNA)
  /\ Blank

\* the tool started on a sequence file, for the trie mode
InitTrie ==
  /\ pc = "read"
  /\ data \in TextsUpTo(TrieChars, MaxTrieText)
  /\ Blank

\* saveIndex / loadIndex called on an arbitrary sequence of entries
InitIdx ==
  /\ pc = "entries"
  /\ data = <<>>
  /\ sequences = <<>> /\ genome = <<>> /\ lineMap = <<>>
  /\ encoded = <<>> /\ alphabetSize = 0
  /\ sa = <<>> /\ lcp = <<>>
  /\ entries \in UNION {[1..k -> EntryValues] : k \in 0..MaxEntries}
  /\ file = <<>> /\ loaded = <<>>
  /\ query = <<>> /\ results = <<>>
  /\ trie = NewTrie /\ inserted = <<>> /\ trieResults = EmptyMap
  /\ flags = NoFlags /\ fsys = NoFiles /\ out = <<>> /\ lmsCall = NoCall

\* the lines of the index files explored: "7 -1 0", " 5\t+3  007 ", "1 2",
\* "1 2 3 4", "1 x 3", "", "0 0 9223372036854775808", "1 2 3\r" and "1 - 3"
IndexLines ==
  { <<55, SP, Minus, 49, SP, Digit0>>,
    <<SP, 53, 9, 43, 51, SP, SP, Digit0, Digit0, 55, SP>>,
    <<49, SP, 50>>,
    <<49, SP, 50, SP, 51, SP, 52>>,
    <<49, SP, 120, SP, 51>>,
    <<>>,
    <<Digit0, SP, Digit0, SP>> \o Int64Limit,
    <<49, SP, 50, SP, 51, 13>>,
    <<49, SP, Minus, SP, 51>> }

\* index files of at most MaxIdxLines lines, with or without a final newline
IndexContents ==
  {Join(ls) \o end : ls \in StringsUpTo(IndexLines, MaxIdxLines), end \in {<<>>, <<NL>>}}

\* loadIndex called on an arbitrary index file
InitLoad ==
  /\ pc = "saved"
  /\ file \in IndexContents
  /\ data = <<>>
  /\ entries = <<>> /\ loaded = <<>>
  /\ sequences = <<>> /\ genome = <<>> /\ lineMap = <<>>
  /\ encoded = <<>> /\ alphabetSize = 0
  /\ sa = <<>> /\ lcp = <<>>
  /\ query = <<>> /\ results = <<>>
  /\ trie = NewTrie /\ inserted = <<>> /\ trieResults = EmptyMap
  /\ flags = NoFlags /\ fsys = NoFiles /\ out = <<>> /\ lmsCall = NoCall

\* the entry construction of runApp applied to an arbitrary suffix array,
\* origin vector and LCP array of a text of n <= MaxZip bytes
InitZip ==
  /\ pc = "lcp"
  /\ \E n \in 0..MaxZip :
       /\ genome \in [1..n -> {65}]
       /\ lineMap \in [1..n -> -1..1]
       /\ sa \in {f \in [1..(n + 1) -> 0..n] :
                    \A i, j \in 1..(n + 1) : f[i] = f[j] => i = j}
       /\ lcp \in [1..(n + 1) -> 0..1]
  /\ data = <<>> /\ sequences = <<>>
  /\ encoded = <<>> /\ alphabetSize = 0
  /\ entries = <<>> /\ file = <<>> /\ loaded = <<>>
  /\ query = <<>> /\ results = <<>>
  /\ trie = NewTrie /\ inserted = <<>> /\ trieResults = EmptyMap
  /\ flags = NoFlags /\ fsys = NoFiles /\ out = <<>> /\ lmsCall = NoCall

\* searchSequence called on an arbitrary text over 'A', 'C' and an arbitrary
\* entries array whose positions lie in [0, len(text)]
InitSearch ==
  /\ pc = "loaded"
  /\ genome \in StringsUpTo({65, 67}, MaxSearchText)
  /\ loaded \in UNION {[1..k -> [Pos : 0..Len(genome), Line : {0}, LCP : {0}]] :
                         k \in 0..MaxSearchEntries}
  /\ data = <<>> /\ sequences = <<>> /\ lineMap = <<>>
  /\ encoded = <<>> /\ alphabetSize = 0
  /\ sa = <<>> /\ lcp = <<>>
  /\ entries = <<>> /\ file = <<>>
  /\ query = <<>> /\ results = <<>>
  /\ trie = NewTrie /\ inserted = <<>> /\ trieResults = EmptyMap
  /\ flags = NoFlags /\ fsys = NoFiles /\ out = <<>> /\ lmsCall = NoCall

\* runApp started on a command line and a file system
InitCLI ==
  /\ pc = "start"
  /\ flags \in CliFlags
  /\ fsys \in [readable : BOOLEAN, patterns : PatternFiles]
  /\ data \in IF fsys.readable THEN TextsUpTo(DataChars, MaxCliData) ELSE {<<>>}
  /\ file \in IndexFiles
  /\ sequences = <<>> /\ genome = <<>> /\ lineMap = <<>>
  /\ encoded = <<>> /\ alphabetSize = 0
  /\ sa = <<>> /\ lcp = <<>> /\ entries = <<>>
  /\ loaded = <<>> /\ query = <<>> /\ results = <<>>
  /\ trie = NewTrie /\ inserted = <<>> /\ trieResults = EmptyMap
  /\ out = <<>> /\ lmsCall = NoCall

(* ----------------------------- actions --------------------------------- *)
\* runApp: split the file into lines, keep the non-empty trimmed ones,
\* concatenate them with '$' and record the origin of every position
ReadGenome ==
  /\ pc = "read"
  /\ sequences' = Sequences(data)
  /\ genome' = AssembleGenome(sequences', 0)
  /\ lineMap' = AssembleLineMap(sequences', 0)
  /\ pc' = "ready"
  /\ UNCHANGED <<flags, fsys, out, lmsCall,
                 data, encoded, alphabetSize, sa, lcp, entries, file, loaded,
                 query, results, trie, inserted, trieResults>>

Encode ==
  /\ pc = "ready"
  /\ encoded' = encodeString(genome).encoded
  /\ alphabetSize' = encodeString(genome).K
  /\ pc' = "encoded"
  /\ UNCHANGED <<flags, fsys, out, lmsCall,
                 data, sequences, genome, lineMap, sa, lcp, entries, file,
                 loaded, query, results, trie, inserted, trieResults>>

BuildSA ==
  /\ pc = "encoded"
  /\ LET r == SAISEntryPoint(encoded, alphabetSize)
     IN  IF r = Panic THEN pc' = "panic_sa" /\ sa' = sa
         ELSE pc' = "sa" /\ sa' = r
  /\ UNCHANGED <<flags, fsys, out, lmsCall,
                 data, sequences, genome, lineMap, encoded, alphabetSize, lcp,
                 entries, file, loaded, query, results, trie, inserted,
                 trieResults>>

BuildLCP ==
  /\ pc = "sa"
  /\ LET r == computeLCP(genome, sa)
     IN  IF r = Panic THEN pc' = "panic_lcp" /\ lcp' = lcp
         ELSE pc' = "lcp" /\ lcp' = r
  /\ UNCHANGED <<flags, fsys, out, lmsCall,
                 data, sequences, genome, lineMap, encoded, alphabetSize, sa,
                 entries, file, loaded, query, results, trie, inserted,
                 trieResults>>

BuildEntries ==
  /\ pc = "lcp"
  /\ entries' = BuildEntriesOf(sa, lcp, lineMap)
  /\ pc' = "entries"
  /\ UNCHANGED <<flags, fsys, out, lmsCall,
                 data, sequences, genome, lineMap, encoded, alphabetSize, sa,
                 lcp, file, loaded, query, results, trie, inserted, trieResults>>

SaveIndex ==
  /\ pc = "entries"
  /\ file' = saveIndex(entries)
  /\ pc' = "saved"
  /\ UNCHANGED <<flags, fsys, out, lmsCall,
                 data, sequences, genome, lineMap, encoded, alphabetSize, sa,
                 lcp, entries, loaded, query, results, trie, inserted,
                 trieResults>>

LoadIndex ==
  /\ pc = "saved"
  /\ IF ScanTooLong(file)
     THEN pc' = "load_error" /\ loaded' = loaded
     ELSE pc' = "loaded" /\ loaded' = loadIndex(file)
  /\ UNCHANGED <<flags, fsys, out, lmsCall,
                 data, sequences, genome, lineMap, encoded, alphabetSize, sa,
                 lcp, entries, file, query, results, trie, inserted,
                 trieResults>>

Search ==
  /\ pc = "loaded"
  /\ \E q \in Queries :
       LET r == searchSequence(genome, loaded, q)
       IN  /\ query' = q
           /\ results' = r.res
           /\ pc' = IF r.panic THEN "panic_search" ELSE "searched"
  /\ UNCHANGED <<flags, fsys, out, lmsCall,
                 data, sequences, genome, lineMap, encoded, alphabetSize, sa,
                 lcp, entries, file, loaded, trie, inserted, trieResults>>

TrieInsert ==
  /\ pc \in {"ready", "trie"}
  /\ Len(inserted) < MaxInserts
  /\ \E p \in Patterns :
       /\ trie' = Insert(trie, p)
       /\ inserted' = Append(inserted, p)
  /\ pc' = "trie"
  /\ UNCHANGED <<flags, fsys, out, lmsCall,
                 data, sequences, genome, lineMap, encoded, alphabetSize, sa,
                 lcp, entries, file, loaded, query, results, trieResults>>

TrieSearch ==
  /\ pc \in {"ready", "trie"}
  /\ trieResults' = searchTrie(genome, trie)
  /\ pc' = "trie_done"
  /\ UNCHANGED <<flags, fsys, out, lmsCall,
                 data, sequences, genome, lineMap, encoded, alphabetSize, sa,
                 lcp, entries, file, loaded, query, results, trie, inserted>>

\* SAIS, naming step: lmsSubstringEqual called on two LMS positions of the
\* encoded text
CompareLMS ==
  /\ pc = "encoded"
  /\ \E i, j \in LMSPositionsOf(encoded) :
       lmsCall' = [i |-> i, j |-> j,
                   equal |-> lmsSubstringEqual(encoded, TypesOf(encoded), i, j)]
  /\ pc' = "compared"
  /\ UNCHANGED <<flags, fsys, out, data, sequences, genome, lineMap, encoded,
                 alphabetSize, sa, lcp, entries, file, loaded, query, results,
                 trie, inserted, trieResults>>

\* runApp: os.ReadFile of the sequence file; an error is printed and ends the
\* run with exit status 1
ReadFile ==
  /\ pc = "start"
  /\ IF fsys.readable
     THEN pc' = "read" /\ out' = out
     ELSE pc' = "exit1" /\ out' = Append(out, "Error reading genome file:")
  /\ UNCHANGED <<flags, fsys, lmsCall, data, sequences, genome, lineMap, encoded,
                 alphabetSize, sa, lcp, entries, file, loaded, query, results,
                 trie, inserted, trieResults>>

\* runApp, branch *indexMode
IndexMode == flags.m /\ Encode

\* runApp, branch *searchQueryStr != "": load sa.idx and search
SearchMode ==
  /\ pc = "ready"
  /\ ~flags.m /\ flags.s # <<>>
  /\ IF file = NoFile \/ ScanTooLong(file)
     THEN /\ pc' = "exit1"
          /\ out' = Append(out, "Error loading index:")
          /\ UNCHANGED <<loaded, query, results>>
     ELSE LET r == searchSequence(genome, loadIndex(file), flags.s)
          IN  /\ loaded' = loadIndex(file)
              /\ query' = flags.s
              /\ results' = r.res
              /\ pc' = IF r.panic THEN "panic_search" ELSE "searched"
              /\ out' = out
  /\ UNCHANGED <<flags, fsys, lmsCall, data, sequences, genome, lineMap, encoded,
                 alphabetSize, sa, lcp, entries, file, trie, inserted, trieResults>>

\* runApp, branch *trieFile != "": read the patterns, build the trie, scan
TrieMode ==
  /\ pc = "ready"
  /\ ~flags.m /\ flags.s = <<>> /\ flags.t # <<>>
  /\ IF fsys.patterns = NoFile
     THEN /\ pc' = "exit1"
          /\ out' = Append(out, "Error reading trie file:")
          /\ UNCHANGED <<trie, inserted, trieResults>>
     ELSE /\ inserted' = Sequences(fsys.patterns)
          /\ trie' = InsertAll(NewTrie, inserted')
          /\ trieResults' = searchTrie(genome, trie')
          /\ pc' = "trie_done"
          /\ out' = out
  /\ UNCHANGED <<flags, fsys, lmsCall, data, sequences, genome, lineMap, encoded,
                 alphabetSize, sa, lcp, entries, file, loaded, query, results>>

\* runApp, final else branch: none of -m, -s, -t was given
Usage ==
  /\ pc = "ready"
  /\ ~flags.m /\ flags.s = <<>> /\ flags.t = <<>>
  /\ out' = Append(out, UsageMsg)
  /\ pc' = "usage"
  /\ UNCHANGED <<flags, fsys, lmsCall, data, sequences, genome, lineMap, encoded,
                 alphabetSize, sa, lcp, entries, file, loaded, query, results,
                 trie, inserted, trieResults>>

Next ==
  \/ ReadGenome \/ Encode \/ BuildSA \/ BuildLCP \/ BuildEntries
  \/ SaveIndex \/ LoadIndex \/ Search

NextIdx == SaveIndex \/ LoadIndex

NextTrie == ReadGenome \/ TrieInsert \/ TrieSearch

NextCLI ==
  \/ ReadFile \/ ReadGenome \/ IndexMode \/ BuildSA \/ BuildLCP \/ BuildEntries
  \/ SaveIndex \/ SearchMode \/ TrieMode \/ Usage

NextLoad == LoadIndex

NextZip == BuildEntries

NextSearch == Search

NextLMS == ReadGenome \/ Encode \/ CompareLMS

Spec == Init /\ [][Next]_vars

SpecDNA == InitDNA /\ [][Next]_vars

SpecIdx == InitIdx /\ [][NextIdx]_vars

SpecTrie == InitTrie /\ [][NextTrie]_vars

SpecCLI == InitCLI /\ [][NextCLI]_vars

SpecLoad == InitLoad /\ [][NextLoad]_vars

SpecZip == InitZip /\ [][NextZip]_vars

SpecSearch == InitSearch /\ [][NextSearch]_vars

SpecLMS == InitDNA /\ [][NextLMS]_vars

\* arrays alternating the largest symbol with smaller ones, the sentinel last:
\* MaxSym, a1, MaxSym, a2, ..., ak, MaxSym, 0
Zigzags ==
  UNION {{[i \in 1..(2 * k + 2) |->
             IF i = 2 * k + 2 THEN 0
             ELSE IF i % 2 = 1 THEN MaxSym ELSE f[i \div 2]] :
            f \in [1..k -> 1..(MaxSym - 1)]} : k \in 1..MaxZigzag}

\* sentinel-terminated arrays: every array over 1..MaxSym of up to MaxSaisLen
\* symbols, and the alternating arrays, each followed by the sentinel 0
SaisInputs ==
  {x \o <<0>> : x \in StringsUpTo(1..MaxSym, MaxSaisLen)} \cup Zigzags

\* SAISEntryPoint called on a sentinel-terminated array with an alphabet size
\* that covers its symbols
InitSAIS ==
  /\ pc = "encoded"
  /\ encoded \in SaisInputs
  /\ alphabetSize \in (MaxOf(encoded) + 1)..(MaxSym + 1)
  /\ data = <<>> /\ sequences = <<>> /\ genome = <<>> /\ lineMap = <<>>
  /\ sa = <<>> /\ lcp = <<>> /\ entries = <<>>
  /\ file = <<>> /\ loaded = <<>>
  /\ query = <<>> /\ results = <<>>
  /\ trie = NewTrie /\ inserted = <<>> /\ trieResults = EmptyMap
  /\ flags = NoFlags /\ fsys = NoFiles /\ out = <<>> /\ lmsCall = NoCall

NextSAIS == BuildSA

SpecSAIS == InitSAIS /\ [][NextSAIS]_vars

(* ------------------- reference notions used by the claims -------------- *)
Range(f) == {f[i] : i \in DOMAIN f}

Min(a, b) == IF a < b THEN a ELSE b

\* the text followed by the terminal sentinel, every byte shifted by one
WithSentinel(text) == [i \in 1..(Len(text) + 1) |-> IF i <= Len(text) THEN text[i] + 1 ELSE 0]

\* the suffix of x that starts at 0-based position p
Suffix(x, p) == SubSeq(x, p + 1, Len(x))

\* the length of the longest common prefix of x and y
CommonPrefixLen(x, y) ==
  CHOOSE k \in 0..Min(Len(x), Len(y)) :
    /\ \A i \in 1..k : x[i] = y[i]
    /\ (k = Min(Len(x), Len(y)) \/ x[k + 1] # y[k + 1])

\* x <= y in lexicographic order
LexLeq(x, y) ==
  LET k == CommonPrefixLen(x, y)
  IN  IF k = Len(x) THEN TRUE ELSE IF k = Len(y) THEN FALSE ELSE x[k + 1] < y[k + 1]

\* the 0-based positions at which p occurs in text
Occurrences(text, p) ==
  {i \in 0..(Len(text) - Len(p)) : SubSeq(text, i + 1, i + Len(p)) = p}

IsAscending(f) == \A i \in 1..(Len(f) - 1) : f[i] < f[i + 1]

\* ASCII white space
IsBlank(b) == b \in {9, 10, 11, 12, 13, SP}

\* the maximal runs of non-blank bytes of a line, left to right
Tokens(l) ==
  LET starts == SelectSeq([i \in 1..Len(l) |-> i],
                          LAMBDA i : ~IsBlank(l[i]) /\ (i = 1 \/ IsBlank(l[i - 1])))
      stop(i) == CHOOSE j \in i..Len(l) :
                   /\ \A k \in i..j : ~IsBlank(l[k])
                   /\ (j = Len(l) \/ IsBlank(l[j + 1]))
  IN  [k \in 1..Len(starts) |-> SubSeq(l, starts[k], stop(starts[k]))]

\* the digits of a token after its sign, if any
Magnitude(tok) == IF tok # <<>> /\ tok[1] \in {43, Minus} THEN Tail(tok) ELSE tok

\* a decimal integer: an optional sign and one or more digits
IsDecimal(tok) ==
  /\ Magnitude(tok) # <<>>
  /\ \A i \in 1..Len(Magnitude(tok)) : Magnitude(tok)[i] \in 48..57

\* the number a decimal integer denotes
DecimalValue(tok) ==
  LET ds == Magnitude(tok)
      pow[k \in 0..Len(ds)] == IF k = 0 THEN 1 ELSE 10 * pow[k - 1]
      sum[k \in 0..Len(ds)] ==
        IF k = 0 THEN 0 ELSE sum[k - 1] + (ds[k] - 48) * pow[Len(ds) - k]
  IN  IF tok[1] = Minus THEN 0 - sum[Len(ds)] ELSE sum[Len(ds)]

\* the decimal digits of the largest value of a 64-bit int, (1<<63) - 1
Int64Max ==
  <<57, 50, 50, 51, 51, 55, 50, 48, 51, 54, 56, 53, 52, 55, 55, 53, 56, 48, 55>>

\* the decimal integer lies in the range of a 64-bit int
FitsInt(tok) ==
  LET ds == Magnitude(tok)
      lead == CHOOSE z \in 0..(Len(ds) - 1) :
                /\ \A k \in 1..z : ds[k] = 48
                /\ (z = Len(ds) - 1 \/ ds[z + 1] # 48)
      sig == SubSeq(ds, lead + 1, Len(ds))
  IN  \/ Len(sig) < 19
      \/ Len(sig) = 19 /\ LexLeq(sig, IF tok[1] = Minus THEN Int64Limit ELSE Int64Max)

\* a line of exactly three white-space separated decimal integers
WellFormed(l) ==
  Len(Tokens(l)) = 3 /\ \A k \in 1..3 : IsDecimal(Tokens(l)[k])

EntryOfLine(l) ==
  [Pos |-> DecimalValue(Tokens(l)[1]), Line |-> DecimalValue(Tokens(l)[2]),
   LCP |-> DecimalValue(Tokens(l)[3])]

\* the end of the LMS substring that starts at the LMS position i of s: the
\* next LMS position, or i itself for the sentinel
LMSEnd(s, i) ==
  IF \E k \in LMSPositionsOf(s) : k > i
  THEN CHOOSE k \in LMSPositionsOf(s) : k > i /\ \A m \in LMSPositionsOf(s) : m > i => k <= m
  ELSE i

\* the symbols and the types of the LMS substring of s at i
LMSSubstring(s, i) ==
  [k \in 1..(LMSEnd(s, i) - i + 1) |-> <<At(s, i + k - 1), At(TypesOf(s), i + k - 1)>>]

\* the positions 0..n of text in the lexicographic order of their suffixes
SortedSuffixArray(text) ==
  [i \in 1..(Len(text) + 1) |->
     CHOOSE p \in 0..Len(text) :
       Cardinality({q \in 0..Len(text) :
                      q # p /\ LexLeq(Suffix(text, q), Suffix(text, p))}) = i - 1]

\* x < y in lexicographic order
LexLess(x, y) == x # y /\ LexLeq(x, y)

\* x starts with p
StartsWith(x, p) == Len(x) >= Len(p) /\ \A i \in 1..Len(p) : x[i] = p[i]

\* the edges of a trie: <<node, symbol, child>>
TrieEdges(tr) ==
  UNION {{<<m, c, tr[m].children[c]>> : c \in DOMAIN tr[m].children} : m \in 1..Len(tr)}

RECURSIVE PathTo(_, _)
\* the symbols on the edges from the root to node k
PathTo(tr, k) ==
  IF k = 1 THEN <<>>
  ELSE LET e == CHOOSE x \in TrieEdges(tr) : x[3] = k
       IN  Append(PathTo(tr, e[1]), e[2])

\* the symbols of a pattern, as Insert reads them
SymbolsOf(p) == [i \in 1..Len(Runes(p)) |-> Runes(p)[i].r]

\* the string a sequence of symbols spells
Spelled(path) == Flatten([i \in 1..Len(path) |-> EncodeRune(path[i])])

SABuilt == pc \in {"sa", "lcp", "entries", "saved", "loaded", "searched",
                   "panic_lcp", "panic_search"}

LCPBuilt == pc \in {"lcp", "entries", "saved", "loaded", "searched", "panic_search"}

Encoded == pc \notin {"read", "ready"}

(* ------------- specifications over correctly sorted suffix arrays ------- *)
\* searchSequence called on a text over 'A', 'C' and on entries that are the
\* sorted suffix array of the text, or what is left of it after some entries
\* were dropped
InitSorted ==
  /\ pc = "loaded"
  /\ genome \in StringsUpTo({65, 67}, MaxSortedText)
  /\ \E keep \in SUBSET (0..Len(genome)) :
       loaded = [i \in 1..Cardinality(keep) |->
                   [Pos |-> SelectSeq(SortedSuffixArray(genome),
                                      LAMBDA p : p \in keep)[i],
                    Line |-> 0, LCP |-> 0]]
  /\ data = <<>> /\ sequences = <<>> /\ lineMap = <<>>
  /\ encoded = <<>> /\ alphabetSize = 0
  /\ sa = <<>> /\ lcp = <<>>
  /\ entries = <<>> /\ file = <<>>
  /\ query = <<>> /\ results = <<>>
  /\ trie = NewTrie /\ inserted = <<>> /\ trieResults = EmptyMap
  /\ flags = NoFlags /\ fsys = NoFiles /\ out = <<>> /\ lmsCall = NoCall

\* computeLCP called on a DNA text and its sorted suffix array
InitLCP ==
  /\ pc = "sa"
  /\ genome \in StringsUpTo(DNABytes, MaxLcpText)
  /\ sa = SortedSuffixArray(genome)
  /\ data = <<>> /\ sequences = <<>> /\ lineMap = <<>>
  /\ encoded = <<>> /\ alphabetSize = 0
  /\ lcp = <<>> /\ entries = <<>> /\ file = <<>> /\ loaded = <<>>
  /\ query = <<>> /\ results = <<>>
  /\ trie = NewTrie /\ inserted = <<>> /\ trieResults = EmptyMap
  /\ flags = NoFlags /\ fsys = NoFiles /\ out = <<>> /\ lmsCall = NoCall

NextLCP == BuildLCP

SpecLCP == InitLCP /\ [][NextLCP]_vars

SpecSorted == InitSorted /\ [][NextSearch]_vars

(* ------------------------------ claims --------------------------------- *)
\* C1: once SAISEntryPoint(encodeString(T)) has returned SA, the suffix of
\* T' (T followed by the sentinel) at SA[i] is lexicographically less than or
\* equal to the suffix at SA[i+1], for every 0 <= i < n.
C1_SuffixesSorted ==
  SABuilt =>
    \A i \in 1..(Len(sa) - 1) :
      LexLeq(Suffix(WithSentinel(genome), sa[i]), Suffix(WithSentinel(genome), sa[i + 1]))

\* C2: the array returned by SAISEntryPoint(encodeString(T)) has length n+1
\* and is a permutation of {0, ..., n}: no entry is -1 or out of range and
\* every position occurs exactly once.
C2_Permutation ==
  SABuilt =>
    /\ Len(sa) = Len(genome) + 1
    /\ Range(sa) = 0..Len(genome)

\* C3: for a non-empty pattern that occurs in T, searchSequence over the
\* index built from SAISEntryPoint returns exactly the starting positions of
\* the pattern, each once, as one contiguous range of the index.
C3_ExactOccurrences ==
  (pc = "searched" /\ query # <<>> /\ Occurrences(genome, query) # {}) =>
    /\ {results[i].Pos : i \in 1..Len(results)} = Occurrences(genome, query)
    /\ Len(results) = Cardinality(Occurrences(genome, query))
    /\ \E lo \in 0..Len(loaded) : results = SubSeq(loaded, lo + 1, lo + Len(results))

\* C4: computeLCP(T, SA) has length n+1, LCP[0] = 0, and for i >= 1 LCP[i] is
\* the length of the longest common prefix of the suffixes of T at SA[i-1]
\* and SA[i], which is at most n.
C4_LCPExact ==
  LCPBuilt =>
    /\ Len(lcp) = Len(genome) + 1
    /\ lcp[1] = 0
    /\ \A i \in 2..Len(lcp) :
         /\ lcp[i] = CommonPrefixLen(Suffix(genome, sa[i - 1]), Suffix(genome, sa[i]))
         /\ lcp[i] <= Len(genome)

\* C5: searchTrie returns a map whose keys are exactly the inserted patterns
\* that occur in the text, each mapped to all its starting positions in
\* ascending order, each position once.
C5_TrieHits ==
  pc = "trie_done" =>
    /\ DOMAIN trieResults = {p \in Range(inserted) : Occurrences(genome, p) # {}}
    /\ \A p \in DOMAIN trieResults :
         /\ Range(trieResults[p]) = Occurrences(genome, p)
         /\ IsAscending(trieResults[p])

\* C6: loadIndex of the file written by saveIndex yields the saved sequence
\* of entries: same length, same order, same position, line and lcp.
C6_RoundTrip == pc = "loaded" => loaded = entries

\* C6 witness: a two-entry index holding a separator entry and a two-digit
\* position has been saved and loaded again.
C6_Witness ==
  /\ pc = "loaded"
  /\ Len(entries) = 2
  /\ entries[1].Line = -1
  /\ entries[2].Pos = MaxPos

\* C7: the assembled text is the retained lines in order with exactly one
\* '$' between consecutive lines and none at either end, and the origin
\* vector has the length of the text, holds the index of its line at every
\* content position and -1 at every separator position.
C7_Assembled ==
  pc # "read" =>
    /\ sequences = SelectSeq([i \in 1..Len(Split(data)) |-> TrimSpace(Split(data)[i])],
                             LAMBDA l : l # <<>>)
    /\ genome = Flatten([i \in 1..Len(sequences) |->
                           IF i < Len(sequences) THEN Append(sequences[i], Separator)
                           ELSE sequences[i]])
    /\ Len(lineMap) = Len(genome)
    /\ lineMap = Flatten([i \in 1..Len(sequences) |->
                            IF i < Len(sequences)
                            THEN Append(Fill(Len(sequences[i]), i - 1), -1)
                            ELSE Fill(Len(sequences[i]), i - 1)])

\* C8: encodeString returns an array of length n+1 with output[i] = text[i]+1
\* for i < n and output[n] = 0; the value 0 appears exactly once, at the end,
\* and K = max(output) + 1 exceeds every encoded symbol.
C8_Encoding ==
  Encoded =>
    /\ Len(encoded) = Len(genome) + 1
    /\ \A i \in 1..Len(genome) : encoded[i] = genome[i] + 1
    /\ encoded[Len(genome) + 1] = 0
    /\ {i \in 1..Len(encoded) : encoded[i] = 0} = {Len(encoded)}
    /\ \A i \in 1..Len(encoded) : encoded[i] >= 0 /\ encoded[i] < alphabetSize
    /\ alphabetSize - 1 \in Range(encoded)

\* C9: searchSequence with the empty pattern returns all n+1 entries of the
\* full index, in suffix-array order.
C9_EmptyPattern ==
  (pc = "searched" /\ query = <<>>) =>
    /\ Len(results) = Len(genome) + 1
    /\ results = entries
    /\ \A i \in 1..Len(results) : results[i].Pos = sa[i]

\* C9 witness: the empty pattern has been searched in the index of a text
\* assembled from two lines.
C9_Witness ==
  /\ pc = "searched"
  /\ query = <<>>
  /\ Len(sequences) = 2
  /\ Len(results) >= 4

\* C10: for a text assembled from several lines, no entry returned by
\* searchSequence for a user query has the separator marker -1 as its line.
C10_NoSeparatorHits ==
  (pc = "searched" /\ Len(sequences) >= 2 /\ query # <<>>) =>
    \A i \in 1..Len(results) : results[i].Line # -1

\* C11: when a pattern is inserted that was inserted before, the trie is the
\* trie of the earlier insertions alone (same nodes, edges, terminal flags and
\* stored patterns), and searchTrie on it gives the hits of that trie, every
\* position of a pattern once.
C11_Idempotent ==
  (Len(inserted) >= 2
     /\ inserted[Len(inserted)] \in Range(SubSeq(inserted, 1, Len(inserted) - 1))) =>
    LET once == InsertAll(NewTrie, SubSeq(inserted, 1, Len(inserted) - 1))
    IN  /\ trie = once
        /\ pc = "trie_done" =>
             /\ trieResults = searchTrie(genome, once)
             /\ \A p \in DOMAIN trieResults : IsAscending(trieResults[p])

\* C11 witness: a pattern inserted twice has been searched in a text in which
\* it occurs, and is reported at its position.
C11_Witness ==
  /\ pc = "trie_done"
  /\ Len(inserted) = 2
  /\ inserted[1] = inserted[2]
  /\ inserted[1] \in DOMAIN trieResults
  /\ trieResults[inserted[1]] = <<0>>

\* C12: a run without -m, -s and -t that has ended has printed the usage
\* message, whether or not the sequence file could be read.
C12_UsageAlways ==
  (pc \in {"usage", "exit1"} /\ ~flags.m /\ flags.s = <<>> /\ flags.t = <<>>) =>
    UsageMsg \in Range(out)

\* C13 (as stated): loadIndex reports no error, and returns exactly the
\* entries of the lines made of three white-space separated decimal integers,
\* in file order.
C13_SkipsMalformed ==
  pc \in {"loaded", "load_error"} =>
    LET good == SelectSeq(Split(file), WellFormed)
    IN  /\ pc = "loaded"
        /\ Len(loaded) = Len(good)
        /\ \A i \in 1..Len(good) : loaded[i] = EntryOfLine(good[i])

\* C13, within the limits of int and of the scanner: on a file whose lines are
\* shorter than the scanner's buffer loadIndex reports no error, and returns
\* exactly the entries of the lines made of three white-space separated
\* decimal integers that each fit a 64-bit int, in file order.
C13_SkipsUnparsable ==
  (pc \in {"loaded", "load_error"}
     /\ \A i \in 1..Len(Split(file)) : Len(Split(file)[i]) < MaxScanTokenSize) =>
    LET good == SelectSeq(Split(file),
                          LAMBDA l : WellFormed(l) /\ \A k \in 1..3 : FitsInt(Tokens(l)[k]))
    IN  /\ pc = "loaded"
        /\ Len(loaded) = Len(good)
        /\ \A i \in 1..Len(good) : loaded[i] = EntryOfLine(good[i])

\* C14: the annotated index has the length and the order of SA, and entry i
\* is {position SA[i], line origin[SA[i]] if SA[i] < n and the separator
\* marker -1 otherwise, lcp LCP[i]}, n being the length of the text.
C14_Zip ==
  pc = "entries" =>
    /\ Len(entries) = Len(sa)
    /\ \A i \in 1..Len(sa) :
         entries[i] = [Pos |-> sa[i],
                       Line |-> IF sa[i] < Len(genome) THEN lineMap[sa[i] + 1] ELSE -1,
                       LCP |-> lcp[i]]

\* C14 witness: entries were built for a text of two bytes whose suffix array
\* starts with the sentinel position and whose origins differ.
C14_Witness ==
  /\ pc = "entries"
  /\ Len(genome) = 2
  /\ sa[1] = 2
  /\ entries[1].Line = -1
  /\ lineMap[1] # lineMap[2]
  /\ entries[2].Line # entries[3].Line

\* C15: the suffix array returned by SAISEntryPoint(encodeString(T)) starts
\* with n, the position of the sentinel, for every text T of length n.
C15_SentinelFirst == SABuilt => sa[1] = Len(genome)

\* C16: for a non-empty pattern that does not occur in the text, and entries
\* with positions in [0, len(T)] in any order, searchSequence does not fail
\* and returns the empty result.
C16_AbsentEmpty ==
  (pc \in {"searched", "panic_search"} /\ query # <<>>
     /\ Occurrences(genome, query) = {}) =>
    pc = "searched" /\ results = <<>>

\* C16 witness: a pattern that does not occur, but whose first byte does, has
\* been searched over a full-length entries array that is not in suffix order.
C16_Witness ==
  /\ pc = "searched"
  /\ query # <<>>
  /\ Occurrences(genome, query) = {}
  /\ Occurrences(genome, <<query[1]>>) # {}
  /\ Len(loaded) = MaxSearchEntries
  /\ \E i \in 1..(Len(loaded) - 1) :
       ~LexLeq(Suffix(genome, loaded[i].Pos), Suffix(genome, loaded[i + 1].Pos))

\* C17: lmsSubstringEqual(s, t, i, j) on two LMS positions i and j is true
\* exactly when the LMS substrings at i and at j (up to and including the next
\* LMS position) have the same symbols and the same types.
C17_LMSEqual ==
  pc = "compared" =>
    (lmsCall.equal <=>
       LMSSubstring(encoded, lmsCall.i) = LMSSubstring(encoded, lmsCall.j))

\* C18: over entries in suffix-sorted order (the full suffix array or a
\* subsequence of it) searchSequence returns exactly the entries whose suffix
\* starts with the pattern, in order, as the slice entries[lo..up], lo being
\* the number of suffixes below the pattern and up the number of suffixes
\* that are below it or start with it.
C18_SortedSearch ==
  pc \in {"searched", "panic_search"} =>
    LET lo == Cardinality({i \in 1..Len(loaded) :
                             LexLess(Suffix(genome, loaded[i].Pos), query)})
        up == Cardinality({i \in 1..Len(loaded) :
                             \/ LexLess(Suffix(genome, loaded[i].Pos), query)
                             \/ StartsWith(Suffix(genome, loaded[i].Pos), query)})
    IN  /\ pc = "searched"
        /\ results = SelectSeq(loaded, LAMBDA e : e.Pos \in Occurrences(genome, query))
        /\ results = SubSeq(loaded, lo + 1, up)

\* C18 witness: a non-empty pattern has been searched over a sorted index
\* from which entries are missing, and two or more entries, not all, match.
C18_Witness ==
  /\ pc = "searched"
  /\ query # <<>>
  /\ Len(loaded) >= 3
  /\ Len(loaded) < Len(genome) + 1
  /\ Len(results) >= 2
  /\ Len(results) < Len(loaded)

\* C19: for the sorted suffix array SA of a text T of length n, computeLCP
\* returns an array of length n+1 with LCP[0] = 0 and LCP[i], i >= 1, the
\* length of the longest common prefix of the suffixes at SA[i-1] and SA[i];
\* and the match length h carried into the step of a text position is at most
\* the common-prefix length of the pair of suffixes compared in that step.
C19_KasaiExact ==
  pc \in {"lcp", "panic_lcp"} =>
    /\ pc = "lcp"
    /\ Len(lcp) = Len(genome) + 1
    /\ lcp[1] = 0
    /\ \A i \in 2..Len(lcp) :
         lcp[i] = CommonPrefixLen(Suffix(genome, sa[i - 1]), Suffix(genome, sa[i]))
    /\ LET rank == RankLoop(sa, Fill(Len(sa), 0), 0)
           carried == KasaiCarried(genome, sa, rank, 0, 0)
       IN  \A i \in 0..(Len(sa) - 1) :
             At(rank, i) > 0 =>
               At(carried, i) <= CommonPrefixLen(Suffix(genome, i),
                                                 Suffix(genome, At(sa, At(rank, i) - 1)))

\* C19 witness: the LCP array of a text has been built in which a match
\* length of two or more was found and carried on to the next position.
C19_Witness ==
  /\ pc = "lcp"
  /\ \E i \in 2..Len(lcp) : lcp[i] >= 2
  /\ \E i \in 1..Len(sa) :
       KasaiCarried(genome, sa, RankLoop(sa, Fill(Len(sa), 0), 0), 0, 0)[i] >= 1

\* C20: after any sequence of insertions a node of the trie is terminal
\* exactly when an inserted pattern spells the path from the root to it, a
\* terminal node stores the string its path spells, and no node has two
\* children for one symbol.
C20_TrieInvariant ==
  /\ \A k \in 1..Len(trie) :
       /\ trie[k].isEnd <=> \E p \in Range(inserted) : SymbolsOf(p) = PathTo(trie, k)
       /\ trie[k].isEnd => trie[k].pattern = Spelled(PathTo(trie, k))
  /\ \A x, y \in TrieEdges(trie) : (x[1] = y[1] /\ x[2] = y[2]) => x[3] = y[3]

\* the sentinel 0 ends s, occurs once, and every symbol lies in [0, K)
SentinelTerminated(s, K) ==
  /\ Len(s) >= 1
  /\ s[Len(s)] = 0
  /\ \A i \in 1..(Len(s) - 1) : s[i] > 0
  /\ \A i \in 1..Len(s) : s[i] < K

\* C21: for a sentinel-terminated input of length n >= 2, every recursive
\* call of SAIS is made on a reduced string that is shorter than the string
\* it was reduced from (at most half its length), ends with the name 0, has
\* the name 0 nowhere else and all its names in [0, numNames); and
\* SAISEntryPoint returns without an index out of range.
C21_ReducedWellFormed ==
  (pc \in {"sa", "panic_sa"} /\ Len(encoded) >= 2
     /\ SentinelTerminated(encoded, alphabetSize)) =>
    /\ pc = "sa"
    /\ LET calls == SAISCalls(encoded, alphabetSize, Len(encoded))
       IN  \A k \in 1..Len(calls) :
             /\ Len(calls[k].s) < calls[k].from
             /\ Len(calls[k].s) <= calls[k].from \div 2
             /\ SentinelTerminated(calls[k].s, calls[k].K)

\* C21 witness: the suffix array of a sentinel-terminated array has been
\* built with a recursive call inside a recursive call.
C21_Witness ==
  /\ pc = "sa"
  /\ SentinelTerminated(encoded, alphabetSize)
  /\ Len(SAISCalls(encoded, alphabetSize, Len(encoded))) >= 2

\* C22: for every text, every query and every entries array, sorted or not,
\* whose positions lie in [0, len(T)], an index lb other than -1 returned by
\* lowerBound is at most the index ub returned by upperBound, so that
\* searchSequence takes the slice entries[lb:ub] without failing.
C22_BoundsOrdered ==
  pc \in {"searched", "panic_search"} =>
    LET lb == lowerBound(genome, loaded, query)
        ub == upperBound(genome, loaded, query, 0, Len(loaded))
    IN  /\ lb # PanicInt /\ ub # PanicInt
        /\ lb # -1 =>
             /\ 0 <= lb /\ lb <= ub /\ ub <= Len(loaded)
             /\ pc = "searched"
             /\ results = Slice(loaded, lb, ub)

\* C22 witness: a non-empty query has been searched over a full-length
\* entries array that is not in suffix order, and lowerBound found an index.
C22_Witness ==
  /\ pc = "searched"
  /\ query # <<>>
  /\ Len(loaded) = MaxSearchEntries
  /\ lowerBound(genome, loaded, query) \notin {-1, PanicInt}
  /\ \E i \in 1..(Len(loaded) - 1) :
       ~LexLeq(Suffix(genome, loaded[i].Pos), Suffix(genome, loaded[i + 1].Pos))

====
